---- MODULE Spec2Model ----
(***************************************************************************)
(* Cache-key derivation of pkg/utils/utils.go: GetMsgKey,                  *)
(* GetMsgKeyWithBytesSalt, GetMsgKeyWithInt64Salt and BytesToStringUnsafe, *)
(* together with the pooled wire buffer GetMsgKeyWithBytesSalt borrows.    *)
(*                                                                         *)
(* A message is abstracted to what the wire serializer makes of it: its    *)
(* wire bytes, or one of two ways of being unencodable.  A call is a frame *)
(* whose pc names the source line it is about to execute.  Strings are     *)
(* either owned byte arrays or views of a pooled buffer, and are read      *)
(* through the memory they refer to.                                       *)
(***************************************************************************)
EXTENDS Integers, Sequences, FiniteSets, TLC

VARIABLES frames, mem, free

vars == <<frames, mem, free>>

(* ------------------------------ bounds --------------------------------- *)

NumCallers == 2
MaxBodyLen == 1
MaxSaltLen == 1

(* ------------------------------ inputs --------------------------------- *)

Callers == 1..NumCallers
Bufs == 1..NumCallers
Slots == {1, 2}

IdVals == {<<0, 0>>, <<18, 52>>}
BodyBytes == {0, 255}
ExampleWire == <<18, 52, 0, 0>>
ExampleSalt == <<255>>

SeqsUpTo(S, n) == UNION {[1..k -> S] : k \in 0..n}

Wires == {id \o b : id \in IdVals, b \in SeqsUpTo(BodyBytes, MaxBodyLen)} \cup {ExampleWire}

OkMsg(w) == [enc |-> "ok", wire |-> w]
BadLenMsg == [enc |-> "badlen", wire |-> <<>>]
BadRRMsg == [enc |-> "badrr", wire |-> <<>>]
NoMsg == [enc |-> "none", wire |-> <<>>]

Msgs == {OkMsg(w) : w \in Wires} \cup {BadLenMsg, BadRRMsg}

Salt16s == {0, 256, 4660, 65535}

\* int64 as four 16-bit limbs, most significant first; the first is signed.
Zero64 == <<0, 0, 0, 0>>
Int64s == {Zero64, <<-1, 65535, 65535, 65535>>, <<-32768, 0, 0, 0>>, <<258, 772, 1286, 1800>>}

Int64Bytes == {<<0, 0, 0, 0, 0, 0, 0, 0>>, <<255, 255, 255, 255, 255, 255, 255, 255>>,
               <<128, 0, 0, 0, 0, 0, 0, 0>>, <<1, 2, 3, 4, 5, 6, 7, 8>>}

Salts == SeqsUpTo(BodyBytes, MaxSaltLen) \cup Int64Bytes

\* The (message, salt) pairs the concurrent callers pass.
PoolCalls == {<<OkMsg(ExampleWire), ExampleSalt>>, <<OkMsg(<<18, 52, 255>>), <<>>>>,
              <<BadRRMsg, ExampleSalt>>, <<BadLenMsg, <<>>>>}

MaxOf(S) == CHOOSE n \in S : \A k \in S : k <= n
Cap == MaxOf({Len(w) : w \in Wires})

(* ------------------------------ memory --------------------------------- *)

NilView == [buf |-> 0, len |-> 0]
EmptyString == [buf |-> 0, len |-> 0, bytes |-> <<>>]

OwnedString(b) == [buf |-> 0, len |-> Len(b), bytes |-> b]

\* What a string reads as, given the pooled memory it may be a view of.
ContentIn(str, memory) ==
    IF str.buf = 0 THEN str.bytes ELSE SubSeq(memory[str.buf], 1, str.len)

Content(str) == ContentIn(str, mem)

Byte(x) == x % 256

NewFrame(entry, pc, m, n16, n64, salt) ==
    [pc |-> pc, start |-> pc, entry |-> entry, m |-> m, n16 |-> n16, n64 |-> n64, salt |-> salt,
     wireMsg |-> NilView, own |-> <<>>, buf |-> 0, sb |-> <<>>,
     key |-> EmptyString, err |-> FALSE,
     nrel |-> 0, uar |-> FALSE, ops |-> {}, snap |-> <<>>, held0 |-> 0, held1 |-> 0]

IdleFrame == NewFrame("none", "idle", NoMsg, 0, Zero64, <<>>)

Held(fr) == Cardinality(Bufs \ fr)

(* --------------------------- control flow ------------------------------ *)

\* Release placed between the zeroing and the copy instead of being deferred.
SuccReleaseBeforeCopy(pc) ==
    CASE pc = "L81" -> "L85"
      [] pc = "L85" -> "L86"
      [] pc = "L86" -> "L87"
      [] pc = "L87" -> "done"
      [] pc = "L111" -> "L92get"
      [] pc = "L92get" -> "L92pack"
      [] pc = "L92pack" -> "L98"
      [] pc = "L98" -> "L99"
      [] pc = "L99" -> "L96"
      [] pc = "L96" -> "L103"
      [] pc = "L103" -> "L104"
      [] pc = "L104" -> "L106"
      [] pc = "L106" -> "done"
      [] OTHER -> "done"

\* buf.Release() called at once, without the defer.
SuccReleaseAtOnce(pc) ==
    CASE pc = "L81" -> "L85"
      [] pc = "L85" -> "L86"
      [] pc = "L86" -> "L87"
      [] pc = "L87" -> "done"
      [] pc = "L111" -> "L92get"
      [] pc = "L92get" -> "L92pack"
      [] pc = "L92pack" -> "L96"
      [] pc = "L96" -> "L98"
      [] pc = "L98" -> "L99"
      [] pc = "L99" -> "L103"
      [] pc = "L103" -> "L104"
      [] pc = "L104" -> "L106"
      [] pc = "L106" -> "done"
      [] OTHER -> "done"

\* The order of the statements; the deferred Release runs after the return
\* value has been evaluated.
Succ(pc) ==
    CASE pc = "L81" -> "L85"
      [] pc = "L85" -> "L86"
      [] pc = "L86" -> "L87"
      [] pc = "L87" -> "done"
      [] pc = "L111" -> "L92get"
      [] pc = "L92get" -> "L92pack"
      [] pc = "L92pack" -> "L98"
      [] pc = "L98" -> "L99"
      [] pc = "L99" -> "L103"
      [] pc = "L103" -> "L104"
      [] pc = "L104" -> "L106"
      [] pc = "L106" -> "L96"
      [] pc = "L96" -> "done"
      [] OTHER -> "done"

\* The error dropped: return "", nil
RetErrSwallowed(f) == [f EXCEPT !.key = EmptyString, !.err = FALSE, !.pc = "done"]

\* return "", err
RetErr(f) == [f EXCEPT !.key = EmptyString, !.err = TRUE, !.pc = "done"]

(* ------------------------- views of wireMsg ---------------------------- *)

Stale(s) == s.f.nrel > 0 \/ s.f.wireMsg.buf \in s.free

\* wireMsg[i-1] = v
SetByte(s, i, v) ==
    IF s.f.wireMsg.buf = 0
    THEN [s EXCEPT !.f.own[i] = v]
    ELSE [s EXCEPT !.mem[s.f.wireMsg.buf][i] = v, !.f.uar = s.f.uar \/ Stale(s)]

\* Only the id bytes read: wireMsg[:2]
ReadViewIdOnly(s) ==
    IF s.f.wireMsg.buf = 0
    THEN SubSeq(s.f.own, 1, 2)
    ELSE SubSeq(s.mem[s.f.wireMsg.buf], 1, 2)

\* wireMsg as sb.Write reads it
ReadView(s) ==
    IF s.f.wireMsg.buf = 0
    THEN s.f.own
    ELSE SubSeq(s.mem[s.f.wireMsg.buf], 1, s.f.wireMsg.len)

\* The string shares the memory of the bytes it is given.
BytesToStringUnsafe(s) ==
    IF s.f.wireMsg.buf = 0
    THEN OwnedString(s.f.own)
    ELSE [buf |-> s.f.wireMsg.buf, len |-> s.f.wireMsg.len, bytes |-> <<>>]

(* ------------------------------ the pool ------------------------------- *)

\* The wire written over the front of a buffer; the rest keeps what it held.
Overwrite(old, w) == [i \in 1..Len(old) |-> IF i <= Len(w) THEN w[i] ELSE old[i]]

\* pool.PackBuffer, first half: a message whose length is invalid fails
\* before any buffer is taken; otherwise buffer b leaves the pool.
StepPackGet(s, b) ==
    IF s.f.m.enc = "badlen"
    THEN [s EXCEPT !.f = RetErr(s.f)]
    ELSE [s EXCEPT !.free = s.free \ {b}, !.f.buf = b, !.f.pc = Succ("L92get")]

\* pool.PackBuffer, second half: packing into the buffer; on failure the
\* buffer goes back to the pool and no buffer is returned.
StepPackInto(s) ==
    IF s.f.m.enc # "ok"
    THEN [s EXCEPT !.free = s.free \cup {s.f.buf}, !.f = RetErr([s.f EXCEPT !.buf = 0])]
    ELSE [s EXCEPT !.mem[s.f.buf] = Overwrite(s.mem[s.f.buf], s.f.m.wire),
                   !.f.wireMsg = [buf |-> s.f.buf, len |-> Len(s.f.m.wire)],
                   !.f.pc = Succ("L92pack")]

PoolRelease(fr, b) == fr \cup {b}

(* ----------------------------- GetMsgKey ------------------------------- *)

\* wireMsg, err := m.Pack(); if err != nil { return "", err }
StepPack(s) ==
    IF s.f.m.enc # "ok"
    THEN [s EXCEPT !.f = RetErr(s.f)]
    ELSE [s EXCEPT !.f.own = s.f.m.wire,
                   !.f.wireMsg = [buf |-> 0, len |-> Len(s.f.m.wire)],
                   !.f.pc = Succ("L81")]

\* wireMsg[0] = byte(salt >> 8)
StepSetId0(s) == [SetByte(s, 1, Byte(s.f.n16 \div 256)) EXCEPT !.f.pc = Succ("L85")]

\* The high byte written twice: wireMsg[1] = byte(salt >> 8)
StepSetId1High(s) == [SetByte(s, 2, Byte(s.f.n16 \div 256)) EXCEPT !.f.pc = Succ("L86")]

\* wireMsg[1] = byte(salt)
StepSetId1(s) == [SetByte(s, 2, Byte(s.f.n16)) EXCEPT !.f.pc = Succ("L86")]

\* return BytesToStringUnsafe(wireMsg), nil
StepRetUnsafe(s) == [s EXCEPT !.f.key = BytesToStringUnsafe(s), !.f.pc = Succ("L87")]

(* ----------------------- GetMsgKeyWithBytesSalt ------------------------ *)

\* The second id byte zeroed in place of the first: wireMsg[1] = 0
StepZeroId0Wrong(s) ==
    [SetByte(s, 2, 0) EXCEPT !.f.pc = Succ("L98"), !.f.ops = s.f.ops \cup {"zero0"}]

\* wireMsg[0] = 0
StepZeroId0(s) ==
    [SetByte(s, 1, 0) EXCEPT !.f.pc = Succ("L98"), !.f.ops = s.f.ops \cup {"zero0"}]

\* The second id byte left as packed.
StepZeroId1Skipped(s) == [s EXCEPT !.f.pc = Succ("L99"), !.f.ops = s.f.ops \cup {"zero1"}]

\* wireMsg[1] = 0
StepZeroId1(s) ==
    [SetByte(s, 2, 0) EXCEPT !.f.pc = Succ("L99"), !.f.ops = s.f.ops \cup {"zero1"}]

\* sb := new(strings.Builder); sb.Grow(...); sb.Write(wireMsg)
StepWriteWire(s) ==
    [s EXCEPT !.f.sb = ReadView(s), !.f.pc = Succ("L103"),
              !.f.ops = s.f.ops \cup {"copy"},
              !.f.uar = s.f.uar \/ Stale(s)]

\* The salt never written.
StepWriteSaltDropped(s) == [s EXCEPT !.f.pc = Succ("L104")]

\* sb.Write(salt)
StepWriteSalt(s) == [s EXCEPT !.f.sb = s.f.sb \o s.f.salt, !.f.pc = Succ("L104")]

\* The key taken as a view of wireMsg instead of the builder's copy.
BuilderStringAliased(s) == BytesToStringUnsafe(s)

\* sb.String(): a string over the builder's own array
BuilderString(s) == OwnedString(s.f.sb)

\* return sb.String(), nil
StepRetString(s) == [s EXCEPT !.f.key = BuilderString(s), !.f.pc = Succ("L106")]

\* defer buf.Release()
StepRelease(s) ==
    [s EXCEPT !.free = PoolRelease(s.free, s.f.buf), !.f.nrel = s.f.nrel + 1,
              !.f.pc = Succ("L96")]

(* ----------------------- GetMsgKeyWithInt64Salt ------------------------ *)

\* uint64(salt): the two's-complement bit pattern
ToUint64(n) == <<n[1] % 65536, n[2], n[3], n[4]>>

\* byte k of v, k = 0 the least significant
ByteAt(v, k) ==
    LET limb == v[4 - (k \div 2)]
    IN IF k % 2 = 0 THEN limb % 256 ELSE limb \div 256

\* Little-endian: b[0] = byte(v), ..., b[7] = byte(v >> 56)
PutUint64Little(v) == [i \in 1..8 |-> ByteAt(v, i - 1)]

\* binary.BigEndian.PutUint64(b, v): b[0] = byte(v >> 56), ..., b[7] = byte(v)
PutUint64(v) == [i \in 1..8 |-> ByteAt(v, 8 - i)]

\* b := make([]byte, 8); PutUint64(b, uint64(salt)); GetMsgKeyWithBytesSalt(m, b)
StepInt64(s) == [s EXCEPT !.f.salt = PutUint64(ToUint64(s.f.n64)), !.f.pc = Succ("L111")]

(* ------------------------------- steps --------------------------------- *)

Dispatch(s, b) ==
    CASE s.f.pc = "L81" -> StepPack(s)
      [] s.f.pc = "L85" -> StepSetId0(s)
      [] s.f.pc = "L86" -> StepSetId1(s)
      [] s.f.pc = "L87" -> StepRetUnsafe(s)
      [] s.f.pc = "L111" -> StepInt64(s)
      [] s.f.pc = "L92get" -> StepPackGet(s, b)
      [] s.f.pc = "L92pack" -> StepPackInto(s)
      [] s.f.pc = "L98" -> StepZeroId0(s)
      [] s.f.pc = "L99" -> StepZeroId1(s)
      [] s.f.pc = "L103" -> StepWriteWire(s)
      [] s.f.pc = "L104" -> StepWriteSalt(s)
      [] s.f.pc = "L106" -> StepRetString(s)
      [] s.f.pc = "L96" -> StepRelease(s)
      [] OTHER -> s

\* One statement of a call; on return the caller reads the key it was given.
Step(s, b) ==
    LET t == Dispatch(s, b)
    IN IF t.f.pc = "done" THEN [t EXCEPT !.f.snap = ContentIn(t.f.key, t.mem)] ELSE t

RECURSIVE Run(_, _)
\* A call run from its first statement to its return, nothing in between.
Run(s, b) == IF s.f.pc \in {"done", "idle"} THEN s ELSE Run(Step(s, b), b)

(* ------------------ concurrent callers of the pool --------------------- *)

Init ==
    /\ frames = [p \in Callers |-> IdleFrame]
    /\ mem = [b \in Bufs |-> [i \in 1..Cap |-> 0]]
    /\ free = Bufs

World(p) == [f |-> frames[p], mem |-> mem, free |-> free]

Apply(p, t) ==
    /\ frames' = [frames EXCEPT ![p] = t.f]
    /\ mem' = t.mem
    /\ free' = t.free

At(p, pc) == frames[p].pc = pc

Call(p) ==
    /\ frames[p].pc \in {"idle", "done"}
    /\ \E c \in PoolCalls :
         frames' = [frames EXCEPT ![p] = NewFrame("B", "L92get", c[1], 0, Zero64, c[2])]
    /\ UNCHANGED <<mem, free>>

PackBufferGet(p) == At(p, "L92get") /\ \E b \in free : Apply(p, Step(World(p), b))
PackBufferInto(p) == At(p, "L92pack") /\ Apply(p, Step(World(p), 0))
ZeroId0(p) == At(p, "L98") /\ Apply(p, Step(World(p), 0))
ZeroId1(p) == At(p, "L99") /\ Apply(p, Step(World(p), 0))
WriteWire(p) == At(p, "L103") /\ Apply(p, Step(World(p), 0))
WriteSalt(p) == At(p, "L104") /\ Apply(p, Step(World(p), 0))
RetString(p) == At(p, "L106") /\ Apply(p, Step(World(p), 0))
Release(p) == At(p, "L96") /\ Apply(p, Step(World(p), 0))

Next ==
    \E p \in Callers :
        \/ Call(p)
        \/ PackBufferGet(p)
        \/ PackBufferInto(p)
        \/ ZeroId0(p)
        \/ ZeroId1(p)
        \/ WriteWire(p)
        \/ WriteSalt(p)
        \/ RetString(p)
        \/ Release(p)

Spec == Init /\ [][Next]_vars

(* ------------------ one call after another, two slots ------------------ *)

\* The calls a slot may be about to make: an entry point and its arguments.
Pending ==
    {NewFrame("A", "L81", m, salt, Zero64, <<>>) : m \in Msgs, salt \in Salt16s}
    \cup {NewFrame("B", "L92get", m, 0, Zero64, salt) : m \in Msgs, salt \in Salts}
    \cup {NewFrame("C", "L111", m, 0, salt, <<>>) : m \in Msgs, salt \in Int64s}

\* The pool has one buffer cached; the others are out, with users of the pool
\* that are no part of these calls.
InitSeq ==
    /\ frames \in [Slots -> Pending]
    /\ mem = [b \in Bufs |-> [i \in 1..Cap |-> 0]]
    /\ free = {1}

Fresh(p, entry) == frames[p].entry = entry /\ frames[p].pc = frames[p].start

RunCall(p) ==
    \E b \in free :
        LET t == Run(World(p), b)
        IN Apply(p, [t EXCEPT !.f.held0 = Held(free), !.f.held1 = Held(t.free)])

GetMsgKey(p) == Fresh(p, "A") /\ RunCall(p)

GetMsgKeyWithBytesSalt(p) == Fresh(p, "B") /\ RunCall(p)

GetMsgKeyWithInt64Salt(p) == Fresh(p, "C") /\ RunCall(p)

NextSeq ==
    \E p \in Slots :
        \/ GetMsgKey(p)
        \/ GetMsgKeyWithBytesSalt(p)
        \/ GetMsgKeyWithInt64Salt(p)

SpecSeq == InitSeq /\ [][NextSeq]_vars

(* ------------------------------- claims -------------------------------- *)

Done(f) == f.pc = "done"
Drop2(w) == SubSeq(w, 3, Len(w))
SameExceptId(w1, w2) == Len(w1) = Len(w2) /\ Drop2(w1) = Drop2(w2)
Returned(f) == Done(f) /\ f.m.enc = "ok"

\* The salt argument of the entry point the frame entered by.
Arg(f) == CASE f.entry = "A" -> f.n16 [] f.entry = "B" -> f.salt [] OTHER -> f.n64

\* C1: two calls of the same entry point with the same salt, on messages whose
\* wires differ at most in bytes 0 and 1, return the same key.
TxIdIndependence ==
    \A p, q \in DOMAIN frames :
        LET f == frames[p]
            g == frames[q]
        IN (/\ Returned(f) /\ Returned(g)
            /\ f.entry = g.entry
            /\ Arg(f) = Arg(g)
            /\ SameExceptId(f.m.wire, g.m.wire))
           => (/\ ~f.err /\ ~g.err
               /\ Content(f.key) = Content(g.key))

TxIdIndependenceWitness ==
    \E p, q \in DOMAIN frames :
        /\ Returned(frames[p]) /\ Returned(frames[q])
        /\ frames[p].entry = "B" /\ frames[q].entry = "B"
        /\ frames[p].salt = ExampleSalt /\ frames[q].salt = ExampleSalt
        /\ frames[p].m.wire = <<18, 52, 255>> /\ frames[q].m.wire = <<0, 0, 255>>
        /\ Content(frames[p].key) = Content(frames[q].key)

SaltSensitivity ==
    \A p, q \in DOMAIN frames :
        LET f == frames[p]
            g == frames[q]
        IN (/\ Returned(f) /\ Returned(g)
            /\ f.entry = g.entry /\ f.entry \in {"A", "B"}
            /\ f.m = g.m
            /\ Arg(f) # Arg(g))
           => Content(f.key) # Content(g.key)

SaltSensitivityWitness ==
    \E p, q \in DOMAIN frames :
        /\ Returned(frames[p]) /\ Returned(frames[q])
        /\ frames[p].entry = "B" /\ frames[q].entry = "B"
        /\ frames[p].m = frames[q].m
        /\ frames[p].salt = <<>> /\ frames[q].salt = ExampleSalt
        /\ Content(frames[p].key) # Content(frames[q].key)

\* C4: a byte-salted call on wire w with salt s returns the bytes
\* 0, 0, w[2..], s, of length len(w) + len(s).
ByteSaltedKeyContent ==
    \A p \in DOMAIN frames :
        LET f == frames[p]
        IN (Returned(f) /\ f.entry = "B")
           => (/\ ~f.err
               /\ Content(f.key) = <<0, 0>> \o Drop2(f.m.wire) \o f.salt
               /\ Len(Content(f.key)) = Len(f.m.wire) + Len(f.salt))

ByteSaltedKeyContentWitness ==
    \E p \in DOMAIN frames :
        /\ Returned(frames[p]) /\ frames[p].entry = "B"
        /\ frames[p].m.wire = ExampleWire /\ frames[p].salt = ExampleSalt
        /\ Content(frames[p].key) = <<0, 0, 0, 0, 255>>

\* C5: an id-salted call on wire w with 16-bit salt v returns the bytes
\* v >> 8, v mod 256, w[2..], of length len(w); with v = 0 that is the key of
\* the byte-salted call with the empty salt.
IdSaltedKeyContent ==
    /\ \A p \in DOMAIN frames :
        LET f == frames[p]
        IN (Returned(f) /\ f.entry = "A")
           => (/\ ~f.err
               /\ Content(f.key) = <<f.n16 \div 256, f.n16 % 256>> \o Drop2(f.m.wire)
               /\ Len(Content(f.key)) = Len(f.m.wire))
    /\ \A p, q \in DOMAIN frames :
        LET f == frames[p]
            g == frames[q]
        IN (/\ Returned(f) /\ Returned(g)
            /\ f.entry = "A" /\ f.n16 = 0
            /\ g.entry = "B" /\ g.salt = <<>>
            /\ f.m = g.m)
           => Content(f.key) = Content(g.key)

IdSaltedKeyContentWitness ==
    \E p, q \in DOMAIN frames :
        /\ Returned(frames[p]) /\ frames[p].entry = "A"
        /\ frames[p].n16 = 4660 /\ frames[p].m.wire = <<0, 0, 255>>
        /\ Content(frames[p].key) = <<18, 52, 255>>
        /\ Returned(frames[q]) /\ frames[q].entry = "B"
        /\ frames[q].salt = <<>> /\ frames[q].m.wire = <<18, 52, 255>>
        /\ Content(frames[q].key) = <<0, 0, 255>>

\* b is the 8-byte big-endian encoding of the 64-bit pattern of n.
IsBigEndian8(b, n) ==
    /\ Len(b) = 8
    /\ \A j \in 1..4 : b[2 * j - 1] * 256 + b[2 * j] = n[j] % 65536

\* C6: the integer-salted call with N returns the key and the error outcome
\* of the byte-salted call with the 8-byte big-endian encoding of N.
Int64Composition ==
    \A p, q \in DOMAIN frames :
        LET f == frames[p]
            g == frames[q]
        IN (/\ Done(f) /\ Done(g)
            /\ f.entry = "C" /\ g.entry = "B"
            /\ f.m = g.m
            /\ IsBigEndian8(g.salt, f.n64))
           => (/\ f.err = g.err
               /\ Content(f.key) = Content(g.key))

Int64CompositionWitness ==
    \E p, q \in DOMAIN frames :
        /\ Returned(frames[p]) /\ Returned(frames[q])
        /\ frames[p].entry = "C" /\ frames[q].entry = "B"
        /\ frames[p].m = frames[q].m
        /\ frames[p].n64 = <<258, 772, 1286, 1800>>
        /\ frames[q].salt = <<1, 2, 3, 4, 5, 6, 7, 8>>
        /\ Content(frames[p].key) = Content(frames[q].key)
        /\ Len(Content(frames[p].key)) = Len(frames[p].m.wire) + 8

PoolSafety ==
    \A p \in DOMAIN frames :
        LET f == frames[p]
        IN (Returned(f) /\ f.entry = "B") => Content(f.key) = f.snap

PoolSafetyWitness ==
    \E p, q \in DOMAIN frames :
        /\ p # q
        /\ Returned(frames[p]) /\ frames[p].entry = "B"
        /\ frames[q].pc = "L96" /\ frames[q].buf = frames[p].buf
        /\ SubSeq(mem[frames[p].buf], 1, Len(frames[p].m.wire)) # <<0, 0>> \o Drop2(frames[p].m.wire)
        /\ Content(frames[p].key) = frames[p].snap

\* C9: a byte-salted call whose serializer succeeded releases its buffer
\* exactly once, as its last act: after both id bytes were zeroed and the wire
\* was copied to the builder; it touches the buffer at no time after that, and
\* holds it until then.
ReleaseOnce ==
    \A p \in DOMAIN frames :
        LET f == frames[p]
        IN /\ ~f.uar
           /\ f.nrel <= 1
           /\ (Returned(f) => f.nrel = 1)
           /\ (f.nrel = 1 => Done(f) /\ {"zero0", "zero1", "copy"} \subseteq f.ops)
           /\ (f.pc \in {"L98", "L99", "L103", "L104", "L106", "L96"}
                 => f.buf \notin free /\ f.nrel = 0)
           /\ (f.err => f.nrel = 0)

ReleaseOnceWitness ==
    \E p \in DOMAIN frames :
        /\ Returned(frames[p]) /\ frames[p].nrel = 1
        /\ frames[p].buf \in free
        /\ frames[p].ops = {"zero0", "zero1", "copy"}

\* The outcome of the call of frame f when it runs alone on a fresh pool.
Alone(f) ==
    Run([f |-> NewFrame(f.entry, f.start, f.m, f.n16, f.n64, f.salt),
         mem |-> [b \in Bufs |-> [i \in 1..Cap |-> 0]],
         free |-> Bufs], 1)

\* The call has its result: it has returned, or its return value is set and
\* only the deferred Release is left.
HasResult(f) == Done(f) \/ (f.pc = "L96" /\ f.key # EmptyString)

\* C10: under every interleaving, the outcome of a byte-salted call is the one
\* the same call has when run alone, and two calls with the same message and
\* salt have the same key.
Independence ==
    /\ \A p \in DOMAIN frames :
        LET f == frames[p]
        IN HasResult(f)
           => (/\ f.err = Alone(f).f.err
               /\ Content(f.key) = ContentIn(Alone(f).f.key, Alone(f).mem))
    /\ \A p, q \in DOMAIN frames :
        LET f == frames[p]
            g == frames[q]
        IN (HasResult(f) /\ HasResult(g) /\ f.m = g.m /\ f.salt = g.salt)
           => Content(f.key) = Content(g.key)

IndependenceWitness ==
    \E p, q \in DOMAIN frames :
        /\ p # q
        /\ frames[p].pc = "L96" /\ frames[q].pc = "L96"
        /\ frames[p].buf # frames[q].buf
        /\ frames[p].m = OkMsg(ExampleWire) /\ frames[q].m = frames[p].m
        /\ frames[p].salt = frames[q].salt
        /\ Content(frames[p].key) = <<0, 0, 0, 0, 255>>
        /\ Content(frames[q].key) = <<0, 0, 0, 0, 255>>

====
